---- MODULE Spec2Model ----
(***************************************************************************)
(* Model of the Blender client of Azure Batch (batched_blender): the job   *)
(* submission thread, the pool resolver, the asset collector and uploader, *)
(* and the modal operators that poll the background threads.               *)
(***************************************************************************)
EXTENDS Integers, Sequences, FiniteSets, TLC

VARIABLES
    page,       \* session.page
    props,      \* scene.batch_submission and render.engine: the job settings
    now,        \* the clock read by BatchUtils.current_time()
    th,         \* SubmitThread: position and locals of submit_job
    ui,         \* the UI thread inside submission.start, and the modal operators
    svc,        \* the Batch service: jobs and pools
    store,      \* the storage account: containers and asset blobs
    calls,      \* the SDK calls issued by the current submission
    assets,     \* scene.batch_assets: collection, display list, path, temp
    scene,      \* the open .blend file and its external references
    files,      \* the local file system
    jobsTh,      \* JobsThread of the jobs page
    watcher,     \* scripts/job_watcher.py: the process that tracks one job
    auth,        \* batchapps_blender auth: AuthThread, credentials, redirect code
    history,     \* batchapps_blender history: the paging of the job list
    display      \* batchapps_blender submission display and the frame range of the scene

vars == <<page, props, now, th, ui, svc, store, calls, assets, scene, files, jobsTh, watcher, auth, history, display>>

----------------------------------------------------------------------------
(* Bounds of the model *)

MaxTasks == 201
MaxTime == 5
MaxRewrites == 2
MaxFaults == 2
MaxEdits == 2
MaxOutputs == 3
MaxLogins == 3
MaxJobs == 12
MaxFrame == 2

(* Program constants *)

BatchSize == 100
PerCall == 5

----------------------------------------------------------------------------
(* Sequences *)

Min(a, b) == IF a < b THEN a ELSE b

Last(s) == s[Len(s)]

Front(s) == SubSeq(s, 1, Len(s) - 1)

RECURSIVE Concat(_)
Concat(ss) == IF ss = <<>> THEN <<>> ELSE Head(ss) \o Concat(Tail(ss))

SelectIdx(s, T(_)) == {k \in 1..Len(s) : T(s[k])}

----------------------------------------------------------------------------
(* Identifiers built from the clock *)

TimedId(prefix, t) == [prefix |-> prefix, t |-> t]

NoId == TimedId("", 0)

(* str(n) as the sequence of its decimal digits *)
RECURSIVE Str(_)
Str(n) == IF n < 10 THEN <<n>> ELSE Str(n \div 10) \o <<n % 10>>

(* s.rjust(width, fill) *)
Rjust(s, width, fill) ==
    IF Len(s) >= width THEN s
    ELSE [k \in 1..(width - Len(s)) |-> fill] \o s

----------------------------------------------------------------------------
(* Paths are sequences of components below the file system root; a leading *)
(* "//" component marks a path relative to the open .blend file.          *)

Dirname(p) == IF p = <<>> THEN <<>> ELSE Front(p)

Basename(p) == IF p = <<>> THEN "" ELSE Last(p)

(* bpy.path.abspath *)
Abspath(p, blend) ==
    IF p # <<>> /\ Head(p) = "//" THEN Dirname(blend) \o Tail(p) ELSE p

RECURSIVE NormInto(_, _)
NormInto(p, acc) ==
    IF p = <<>> THEN acc
    ELSE IF Head(p) = "." THEN NormInto(Tail(p), acc)
    ELSE IF Head(p) = ".."
         THEN NormInto(Tail(p), IF acc = <<>> THEN <<>> ELSE Front(acc))
    ELSE NormInto(Tail(p), Append(acc, Head(p)))

(* os.path.normpath *)
Normpath(p) == NormInto(p, <<>>)

(* os.path.realpath: the modelled file system has no symbolic links *)
Realpath(p) == Normpath(p)

TempDir == <<"tmp">>

TempNames == {"BATCHTMP_1.blend"}

RenderScript == <<"addon", "scripts", "render.py">>

BlendA == <<"proj", "a.blend">>

BlendB == <<"proj", "b.blend">>

(* The files on disk; every other path does not exist *)
Disk ==
    (RenderScript :> [kind |-> "file", content |-> "script"]) @@
    (BlendA :> [kind |-> "file", content |-> "blendA"]) @@
    (BlendB :> [kind |-> "file", content |-> "blendB"]) @@
    (<<"proj", "tex.png">> :> [kind |-> "file", content |-> "pixels"]) @@
    (<<"proj", "copy.png">> :> [kind |-> "file", content |-> "pixels"]) @@
    (<<"proj", "snd.wav">> :> [kind |-> "file", content |-> "wave"]) @@
    (<<"proj", "locked.png">> :> [kind |-> "locked", content |-> "pixels"]) @@
    (<<"proj", "lib">> :> [kind |-> "dir", content |-> ""])

FileAt(fs, p) == IF p \in DOMAIN fs THEN fs[p] ELSE [kind |-> "none", content |-> ""]

(* os.path.exists *)
Exists(p) == FileAt(files, p).kind # "none"

(* os.path.isdir *)
IsDir(p) == FileAt(files, p).kind = "dir"

(* hashlib.md5(...).hexdigest(): distinct contents have distinct digests *)
Md5(content) ==
    CASE content = "script" -> "d1e0"
      [] content = "blendA" -> "ab01"
      [] content = "blendB" -> "bb02"
      [] content = "pixels" -> "91f3"
      [] content = "wave" -> "7c44"
      [] content = "saved" -> "5a5e"
      [] OTHER -> "d41d"

None == ""

(* BatchAsset.get_checksum: None when the file cannot be opened and read *)
get_checksum(fs, p) ==
    IF FileAt(fs, p).kind = "file" THEN Md5(FileAt(fs, p).content) ELSE None

(* BatchAsset.__init__ on the file system fs; oid is the identity of the   *)
(* new object                                                              *)
BatchAssetOn(fs, sc, file_path, oid) ==
    LET path == Normpath(Realpath(Abspath(file_path, sc.filepath)))
        exists == FileAt(fs, path).kind # "none"
    IN [oid |-> oid,
        path |-> path,
        name |-> Basename(path),
        exists |-> exists,
        checksum |-> IF exists THEN get_checksum(fs, path) ELSE None]

BatchAsset(sc, file_path, oid) == BatchAssetOn(files, sc, file_path, oid)

(* an identity no object of the list has *)
FreshOid(coll) ==
    1 + (IF coll = <<>> THEN 0
         ELSE CHOOSE m \in {coll[k].oid : k \in 1..Len(coll)} :
                \A k \in 1..Len(coll) : coll[k].oid <= m)

(* "asset in collection": BatchAsset defines no __eq__, so list membership *)
(* compares object identity                                                *)
AssetIn(a, coll) == \E k \in 1..Len(coll) : coll[k].oid = a.oid

BlobName(a) == <<a.name, a.checksum>>

----------------------------------------------------------------------------
(* The storage account *)

(* list_blobs(container, prefix=name): the blob names are <name>_<checksum> *)
(* and no modelled file name is a prefix of another                         *)
list_blobs(st, name) == {b \in st.blobs : b[1] = name}

is_uploadedNever(st, a) == FALSE

(* BatchAsset.is_uploaded, once list_blobs has returned *)
is_uploaded(st, a) == BlobName(a) \in list_blobs(st, a.name)

(* What a call of BatchAsset.is_uploaded does: it raises when the listing  *)
(* fails and when the checksum is None (str + None), else it answers       *)
IsUploadedCall(st, a, listing) ==
    IF listing = "raise" THEN "AzureError"
    ELSE IF a.checksum = None THEN "TypeError"
    ELSE IF is_uploaded(st, a) THEN "yes" ELSE "no"

UploadCallUnchecked(st, a, listing, writing) ==
    IF ~a.exists THEN "skipped"
    ELSE IF listing = "raise" THEN "AzureError"
    ELSE IF a.checksum = None THEN "TypeError"
    ELSE IF writing = "ok" THEN "written" ELSE "AzureError"

(* BatchAsset.upload: "skipped", "written", or the exception it raises;    *)
(* listing and writing are the outcomes of the two storage calls           *)
UploadCall(st, a, listing, writing) ==
    IF ~a.exists THEN "skipped"
    ELSE LET u == IsUploadedCall(st, a, listing)
         IN IF u = "yes" THEN "skipped"
            ELSE IF u = "no"
                 THEN (IF writing = "ok" THEN "written" ELSE "AzureError")
            ELSE u

(* The store after BatchAsset.upload *)
StoreAfterUpload(st, a, result) ==
    IF result = "written"
    THEN [st EXCEPT !.blobs = @ \cup {BlobName(a)},
                    !.writes = IF BlobName(a) \in DOMAIN @
                               THEN [@ EXCEPT ![BlobName(a)] = @ + 1]
                               ELSE (BlobName(a) :> 1) @@ @]
    ELSE st

(* How many times create_blob_from_path has written the blob *)
Writes(b) == IF b \in DOMAIN store.writes THEN store.writes[b] ELSE 0

Outcomes == {"ok", "raise"}

----------------------------------------------------------------------------
(* scene.batch_assets *)

Builtin == <<"<builtin>">>

(* BatchAssets.collect_assets *)
collect_assets(sc) ==
    LET abs(p) == Abspath(p, sc.filepath)
        real(q) == [k \in 1..Len(q) |-> Realpath(abs(q[k]))]
        fonts == SelectSeq(sc.fonts, LAMBDA f : f # Builtin)
    IN real(sc.sounds) \o real(fonts) \o
       [k \in 1..Len(sc.textures) |-> Normpath(Realpath(abs(sc.textures[k])))] \o
       [k \in 1..Len(sc.images) |-> Normpath(Realpath(abs(sc.images[k])))] \o
       [k \in 1..Len(sc.libraries) |-> Normpath(Realpath(abs(sc.libraries[k])))]

(* AssetDisplayProps of a new entry *)
DisplayEntry(a, check) ==
    [name |-> a.name, fullpath |-> a.path, upload_check |-> check]

add_assetCheckedFirst(as, a, listing) ==
    LET u == IsUploadedCall(store, a, listing)
        entry == DisplayEntry(a, u = "yes")
    IN [as EXCEPT !.collection = Append(@, a),
                  !.assets = IF u \in {"yes", "no"} THEN Append(@, entry) ELSE @,
                  !.raised = IF u \in {"yes", "no"} THEN "none" ELSE u]

(* AssetProps.add_asset: the object is appended and the display entry      *)
(* filled before is_uploaded is asked; when is_uploaded raises, the entry  *)
(* keeps the default upload_check and the exception leaves add_asset       *)
add_asset(as, a, listing) ==
    LET u == IsUploadedCall(store, a, listing)
        entry == DisplayEntry(a, u = "yes")
    IN [as EXCEPT !.collection = Append(@, a),
                  !.assets = Append(@, entry),
                  !.raised = IF u \in {"yes", "no"} THEN "none" ELSE u]

resetNothing(as) == as

(* AssetProps.reset *)
reset(as) == [as EXCEPT !.collection = <<>>, !.assets = <<>>, !.index = 0]

(* the loop of generate_collection over the collected paths; failAt is the *)
(* call of list_blobs that raises, 0 when none does                        *)
RECURSIVE AddCollected(_, _, _, _, _)
AddCollected(sc, as, paths, n, failAt) ==
    IF paths = <<>> \/ as.raised # "none" THEN [as |-> as, n |-> n]
    ELSE LET user_file == BatchAsset(sc, Head(paths), FreshOid(as.collection))
         IN IF Exists(user_file.path) /\ ~AssetIn(user_file, as.collection)
               /\ ~IsDir(user_file.path)
            THEN AddCollected(sc,
                    add_asset(as, user_file,
                              IF n + 1 = failAt THEN "raise" ELSE "ok"),
                    Tail(paths), n + 1, failAt)
            ELSE AddCollected(sc, as, Tail(paths), n, failAt)

(* BatchAssets.generate_collection *)
generate_collection(sc, as0, failAt) ==
    LET r == AddCollected(sc, reset(as0), collect_assets(sc), 0, failAt)
        as == r.as
        jobfile == BatchAsset(sc, as.path, FreshOid(as.collection))
    IN IF as.raised # "none" \/ as.temp THEN as
       ELSE IF ~AssetIn(jobfile, as.collection)
            THEN add_asset(as, jobfile,
                           IF r.n + 1 = failAt THEN "raise" ELSE "ok")
            ELSE as

(* BatchAssets.get_jobpath: the assets with temp set, and the path *)
get_jobpath(sc, as, tmpname) ==
    IF sc.filepath = <<>> /\ as.temp
    THEN [as |-> as,
          path |-> IF as.path # <<>> THEN as.path ELSE TempDir \o <<tmpname>>]
    ELSE IF sc.filepath = <<>>
    THEN [as |-> [as EXCEPT !.temp = TRUE], path |-> TempDir \o <<tmpname>>]
    ELSE [as |-> [as EXCEPT !.temp = FALSE], path |-> sc.filepath]

(* BatchAssets._refresh and the same steps of BatchAssets._assets, run     *)
(* through BatchOps.session: the assets after it                           *)
(* (raised names the exception the session wrapper caught)                 *)
RefreshOp(sc, as0, tmpname, failAt) ==
    LET j == get_jobpath(sc, [as0 EXCEPT !.raised = "none"], tmpname)
    IN generate_collection(sc, [j.as EXCEPT !.path = j.path], failAt)

(* AssetProps.get_jobfile: the index of the job file in the collection, 0  *)
(* when it raises ValueError                                               *)
get_jobfile(as) ==
    LET hits == {k \in 1..Len(as.collection) : as.collection[k].path = as.path}
    IN IF hits = {} THEN 0 ELSE CHOOSE k \in hits : \A h \in hits : k <= h

(* AssetProps.set_uploaded *)
set_uploaded(as) ==
    [as EXCEPT !.assets = [k \in 1..Len(@) |-> [@[k] EXCEPT !.upload_check = TRUE]]]

----------------------------------------------------------------------------
(* The Batch service *)

AutoPoolSpecification(prefix) ==
    [auto_pool_id_prefix |-> prefix,
     pool_lifetime_option |-> "job",
     keep_alive |-> FALSE]

NoSpec ==
    [auto_pool_id_prefix |-> "", pool_lifetime_option |-> "", keep_alive |-> FALSE]

PoolInformation(pool_id, spec) ==
    [pool_id |-> pool_id, auto_pool_specification |-> spec]

NoPool == PoolInformation(NoId, NoSpec)

(* BatchUtils.get_auto_pool *)
get_auto_pool(lux) ==
    AutoPoolSpecification(IF lux THEN "luxblend_auto" ELSE "blender_auto")

(* A persistent pool and the auto-pool of a job of another session, both   *)
(* listed by the pools page (ids starting with "blender")                  *)
OldPool == TimedId("blender_pool", 0)

OldAutoPool == TimedId("blender_auto", 0)

----------------------------------------------------------------------------
(* The scenes the user can open *)

SceneA ==
    [filepath |-> BlendA,
     sounds |-> <<>>,
     fonts |-> <<Builtin>>,
     textures |-> << <<"//", "tex.png">> >>,
     images |-> << <<"//", "tex.png">> >>,
     libraries |-> <<>>]

SceneB ==
    [filepath |-> BlendB,
     sounds |-> << <<"proj", "snd.wav">> >>,
     fonts |-> <<>>,
     textures |-> << <<"//", "copy.png">> >>,
     images |-> << <<"proj", "sub", "..", "copy.png">>, <<"proj", "missing.png">> >>,
     libraries |-> << <<"proj", "lib">> >>]

SceneU ==
    [filepath |-> <<>>,
     sounds |-> <<>>,
     fonts |-> <<>>,
     textures |-> <<>>,
     images |-> << <<"proj", ".", "tex.png">> >>,
     libraries |-> <<>>]

(* a saved scene with an image file that cannot be read *)
SceneL ==
    [filepath |-> BlendA,
     sounds |-> <<>>,
     fonts |-> <<>>,
     textures |-> <<>>,
     images |-> << <<"//", "locked.png">> >>,
     libraries |-> <<>>]

----------------------------------------------------------------------------
(* scripts/job_watcher.py *)

(* batch.models.JobState *)
JobState ==
    {"active", "disabling", "disabled", "enabling", "terminating", "completed",
     "deleting"}

stopped_status == {"disabling", "disabled", "terminating", "deleting"}

running_status == {"active", "enabling"}

_check_job_stoppedNoRaise(state) ==
    IF state = "completed" THEN "True"
    ELSE IF state \in running_status \cup stopped_status THEN "False"
    ELSE "None"

(* _check_job_stopped: "True", "False", the exception it raises, or "None" *)
(* when the function falls off its end                                     *)
_check_job_stopped(state) ==
    IF state \in stopped_status THEN "RuntimeError"
    ELSE IF state = "completed" THEN "True"
    ELSE IF state \in running_status THEN "False"
    ELSE "None"

----------------------------------------------------------------------------
(* batchapps_blender/auth.py *)

(* The path of the request the redirect server receives, as the pieces     *)
(* find() looks for and single characters; <<>> is None (no request        *)
(* before the timeout)                                                     *)
NoCode == <<>>

Redirects ==
    {NoCode,
     <<"/?code=", "c", "1">>,
     <<"/?error=", "e", "r", "&error_description=", "n", "+", "o">>,
     <<"/?error=", "e", "r">>}

(* str.find(val): the index of val in the code, -1 when absent *)
Find(code, val, from) ==
    LET hits == {k \in from..(Len(code) - 1) : code[k + 1] = val}
    IN IF hits = {} THEN 0 - 1 ELSE CHOOSE k \in hits : \A h \in hits : k <= h

NoneValue == <<"None">>

(* BatchAppsAuth.decode_error: None when val is not in the code.  The only *)
(* piece of a modelled code that holds '&' is "&error_description=", and   *)
(* code[strt:end] follows Python's rule for a negative end                 *)
decode_error(code, val) ==
    LET error_idx == Find(code, val, 0)
        strt_idx == error_idx + 1
        end_idx == Find(code, "&error_description=", strt_idx)
        stop == IF end_idx < 0 THEN Len(code) + end_idx ELSE end_idx
    IN IF error_idx < 0 THEN NoneValue
       ELSE IF stop <= strt_idx THEN <<>>
       ELSE SubSeq(code, strt_idx + 1, stop)

----------------------------------------------------------------------------
(* Initial state *)

ThreadIdle ==
    [pc |-> "idle", job_id |-> NoId, pool |-> NoPool, tasks |-> <<>>, i |-> 0,
     failed |-> <<>>, uploading |-> <<>>, k |-> 0, uploaded |-> <<>>,
     upfailed |-> {}, job_file |-> [oid |-> 0, path |-> <<>>, name |-> "", exists |-> FALSE,
                              checksum |-> None], exc |-> "none", ret |-> "none"]

NoCalls == [add |-> <<>>, cleanup |-> <<>>, failure |-> FALSE, pool_add |-> <<>>]

(* first frames and numbers of frames *)
FrameRanges ==
    {<<s, s + n - 1>> : s \in {1, 8},
                        n \in {0, 1, 3, BatchSize, BatchSize + 1, MaxTasks}}

(* The state after the add-on is registered, when failed calls of the    *)
(* services have failed before                                           *)
RegisteredOn(first_page, failed) ==
    /\ page = first_page
    /\ now = 1
    /\ th = ThreadIdle
    /\ ui = [start |-> "none", seen |-> FALSE, modal |-> FALSE, jobs_modal |-> FALSE,
             op |-> "none", exc |-> "none", ret |-> "none",
             pools |-> {}]
    /\ svc = [jobs |-> (TimedId("blender-render", 0) :> [pool |-> PoolInformation(NoId, get_auto_pool(FALSE)),
                                   runs_on |-> OldAutoPool,
                                   tasks |-> <<>>]),
              pools |-> {OldPool, OldAutoPool},
              faults |-> failed]
    /\ store = [containers |-> {}, blobs |-> {}, writes |-> <<>>]
    /\ calls = NoCalls
    /\ assets = [collection |-> <<>>, assets |-> <<>>, path |-> <<>>,
                 temp |-> FALSE, index |-> 0, raised |-> "none", edits |-> 0]
    /\ files = Disk
    /\ jobsTh = "idle"
    \* the job watcher before it is launched
    /\ watcher = [pc |-> "off", job |-> "none", completed |-> 0, downloaded |-> 0,
                  stopped |-> "none", exit |-> ""]
    \* the Batch Apps add-on before BatchAppsSettings.__init__ tries to log in
    /\ auth = [pc |-> "off", tried |-> <<>>, credentials |-> "none", code |-> NoCode,
               cached |-> FALSE, modal |-> FALSE, logins |-> 0, logged |-> <<>>]
    \* the job history before history.page is first run; remote is the number
    \* of jobs the service holds for the user
    /\ history = [pc |-> "off", thread |-> "none", seen |-> FALSE,
                  index |-> 0, total_count |-> 0, jobs |-> 0, selected |-> -1,
                  remote |-> 0, op |-> "none", exc |-> "none"]
    \* register_handlers has run on_load: the frame range of the scene
    /\ display = [start_f |-> 1, end_f |-> 2, valid_range |-> TRUE,
                 frame_start |-> 1, frame_end |-> 2]

Registered(failed) == RegisteredOn("HOME", failed)

PropsOf(pt, pid, fr, vm, lux) ==
    [pool_type |-> pt, pool_id |-> pid, start_f |-> fr[1], end_f |-> fr[2],
     video_merge |-> vm, lux |-> lux]

(* Frame ranges of every size, on an existing pool *)
Init ==
    /\ Registered(0)
    /\ scene = SceneA
    /\ \E fr \in FrameRanges, vm \in BOOLEAN, lux \in BOOLEAN :
          props = PropsOf({"reuse"}, OldPool, fr, vm, lux)

(* Every pool setting, on a short frame range *)
InitPools ==
    /\ Registered(0)
    /\ scene = SceneA
    /\ \E pt \in {{"reuse"}, {"create"}, {"auto"}, {}},
          pid \in {NoId, OldPool, OldAutoPool}, lux \in BOOLEAN :
          props = PropsOf(pt, pid, <<1, 2>>, FALSE, lux)

(* The scenes opened one after the other from SceneB on, on a short frame  *)
(* range and an existing pool                                              *)
InitAssets ==
    /\ Registered(0)
    /\ scene = SceneB
    /\ props = PropsOf({"reuse"}, OldPool, <<1, 1>>, FALSE, FALSE)

(* The job history is opened from the home page *)
InitHistory ==
    /\ Registered(0)
    /\ scene = SceneA
    /\ props = PropsOf({"reuse"}, OldPool, <<1, 1>>, FALSE, FALSE)

(* The frame range is edited from the home page on *)
InitFrames ==
    /\ Registered(0)
    /\ scene = SceneA
    /\ props = PropsOf({"reuse"}, OldPool, <<1, 1>>, FALSE, FALSE)

(* The watcher is launched from the jobs of an idle session *)
InitWatcher ==
    /\ Registered(0)
    /\ scene = SceneA
    /\ props = PropsOf({"reuse"}, OldPool, <<1, 1>>, FALSE, FALSE)

(* The Batch Apps add-on before the user logs in *)
InitAuth ==
    /\ RegisteredOn("LOGIN", 0)
    /\ scene = SceneA
    /\ props = PropsOf({"reuse"}, OldPool, <<1, 1>>, FALSE, FALSE)

(* One scene whose asset list the user edits by hand *)
InitEdit ==
    /\ Registered(1)
    /\ scene = SceneA
    /\ props = PropsOf({"reuse"}, OldPool, <<1, 1>>, FALSE, FALSE)

----------------------------------------------------------------------------
(* Calls of the remote services fail at most MaxFaults times *)

CanFail == svc.faults < MaxFaults

Permitted(o) == o = "ok" \/ CanFail

Counted(s, o) == IF o = "ok" THEN s ELSE [s EXCEPT !.faults = @ + 1]

----------------------------------------------------------------------------
(* BatchOps.session *)

sessionKeepsPage(exc, pg, result) ==
    [page |-> pg, ret |-> IF exc # "none" THEN "CANCELLED" ELSE result]

(* BatchOps.session(func): exc is the exception func raised ("none" when   *)
(* it returned), pg the page as func left it, result what func returned    *)
session(exc, pg, result) ==
    IF exc # "none" THEN [page |-> "ERROR", ret |-> "CANCELLED"]
    ELSE [page |-> pg, ret |-> result]

(* The operator that BatchOps.register builds has run func through session *)
OpDone(u, name, exc, result) ==
    [u EXCEPT !.op = name, !.exc = exc, !.ret = session(exc, "", result).ret]

----------------------------------------------------------------------------
(* The UI thread: pages and submission.start *)

Alive == th.pc \notin {"idle", "done"}

JobsAlive == jobsTh = "running"

(* The panel operators are modelled while no thread and no modal runs *)
UiFree == ~Alive /\ ~JobsAlive /\ ui.start = "none" /\ ~ui.modal /\ ~ui.jobs_modal

(* BatchSettings._home *)
Home ==
    /\ UiFree
    /\ page \notin {"HOME", "PROCESSING", "LOADING"}
    /\ page' = session("none", "HOME", "FINISHED").page
    /\ ui' = OpDone(ui, "shared.home", "none", "FINISHED")
    /\ UNCHANGED <<props, now, th, svc, store, calls, assets, scene, files, jobsTh, watcher, auth, history, display>>

(* BatchSubmission._submission *)
SubmissionPage ==
    /\ UiFree
    /\ page = "HOME"
    /\ page' = session("none", "SUBMIT", "FINISHED").page
    /\ ui' = OpDone(ui, "submission.page", "none", "FINISHED")
    /\ UNCHANGED <<props, now, th, svc, store, calls, assets, scene, files, jobsTh, watcher, auth, history, display>>

(* BatchSubmission._start up to the return of bpy.ops...processing:        *)
(* _processing_invoke starts the thread and adds the modal handler         *)
StartInvoke ==
    /\ UiFree
    /\ page = "SUBMIT"
    /\ now + 3 <= MaxTime
    /\ now' = now + 1
    /\ th' = [ThreadIdle EXCEPT !.pc = "begin"]
    /\ calls' = NoCalls
    /\ ui' = [ui EXCEPT !.start = "test", !.modal = TRUE]
    /\ UNCHANGED <<page, props, svc, store, assets, scene, files, jobsTh, watcher, auth, history, display>>

(* _start: the test of "if page == SUBMIT" *)
StartTest ==
    /\ ui.start = "test"
    /\ ui' = [ui EXCEPT !.start = "set", !.seen = (page = "SUBMIT")]
    /\ UNCHANGED <<page, props, now, th, svc, store, calls, assets, scene, files, jobsTh, watcher, auth, history, display>>

(* _start: the assignment page = PROCESSING *)
StartSet ==
    /\ ui.start = "set"
    /\ page' = session("none", IF ui.seen THEN "PROCESSING" ELSE page, "FINISHED").page
    /\ ui' = OpDone([ui EXCEPT !.start = "none", !.seen = FALSE], "submission.start", "none", "FINISHED")
    /\ UNCHANGED <<props, now, th, svc, store, calls, assets, scene, files, jobsTh, watcher, auth, history, display>>

(* What a modal handler returns for an event, given whether its thread is  *)
(* alive: _processing_modal and _loading_modal have the same body, whose   *)
(* "return FINISHED" stands outside the test of is_alive                   *)
ModalReturn(event, alive) ==
    IF event = "TIMER" THEN "FINISHED" ELSE "RUNNING_MODAL"

Events == {"TIMER", "MOUSEMOVE"}

(* BatchSubmission._processing_modal: the handler stays installed while it *)
(* returns RUNNING_MODAL                                                   *)
ProcessingModal ==
    /\ ui.modal
    /\ ui.start = "none"
    /\ \E event \in Events :
          ui' = [ui EXCEPT !.modal = ModalReturn(event, Alive) = "RUNNING_MODAL"]
    /\ UNCHANGED <<page, props, now, th, svc, store, calls, assets, scene, files, jobsTh, watcher, auth, history, display>>

----------------------------------------------------------------------------
(* SubmitThread: BatchOps.session(self.submit_job) *)

Raise(t, e) == [t EXCEPT !.pc = "catch", !.exc = e]

(* BatchSubmission.get_pool: which branch the settings select *)
PoolBranch(p) ==
    IF p.pool_type = {"reuse"} /\ p.pool_id # NoId THEN "reuse"
    ELSE IF p.pool_type = {"create"} THEN "create"
    ELSE IF p.pool_type = {"auto"} THEN "auto"
    ELSE "invalid"

(* BatchSubmission.get_pool: the reference it returns, or the exception.   *)
(* The auto branch formats pool_name (line 224), a name it never binds     *)
get_pool(p, t) ==
    LET branch == PoolBranch(p)
    IN IF branch = "reuse"
       THEN [exc |-> "none", pool |-> PoolInformation(p.pool_id, NoSpec)]
       ELSE IF branch = "create"
       THEN [exc |-> "none",
             pool |-> PoolInformation(TimedId("blender_pool", t), NoSpec)]
       ELSE IF branch = "auto"
       THEN [exc |-> "NameError", pool |-> NoPool]
       ELSE [exc |-> "ValueError", pool |-> NoPool]

(* BatchPools._create as get_pool runs it: the operator's execute receives *)
(* no keyword, so the id is taken from the clock again; under LuxRender    *)
(* get_pool_config reads props.lux_app_image, which PoolProps lacks        *)
CreatedPool(lux, t) ==
    TimedId(IF lux THEN "luxblend_pool" ELSE "blender_pool", t)

(* submit_job, lines 315-333: the job id and get_pool *)
ThreadGetPool ==
    /\ th.pc = "begin"
    /\ LET creating == PoolBranch(props) = "create"
           ticks == IF creating THEN {0, 1} ELSE {0}
       IN \E d1 \in ticks, d2 \in ticks, o \in Outcomes :
          LET job_id == TimedId(IF props.lux THEN "luxblend-render" ELSE "blender-render", now)
              r == get_pool(props, now + d1)
              created == CreatedPool(props.lux, now + d1 + d2)
              adds == creating /\ ~props.lux
              create_ok == adds /\ o = "ok"
          IN /\ Permitted(o)
             /\ adds \/ o = "ok"
             /\ svc' = Counted(IF create_ok
                               THEN [svc EXCEPT !.pools = @ \cup {created}]
                               ELSE svc, o)
             /\ calls' = IF adds THEN [calls EXCEPT !.pool_add = Append(@, created)]
                         ELSE calls
             /\ page' = IF creating /\ ~create_ok THEN "ERROR" ELSE page
             /\ props' = IF creating
                         THEN [props EXCEPT !.pool_type = {"reuse"},
                                            !.pool_id = r.pool.pool_id]
                         ELSE props
             /\ now' = now + d1 + d2
             /\ th' = IF r.exc # "none"
                      THEN Raise([th EXCEPT !.job_id = job_id], r.exc)
                      ELSE [th EXCEPT !.pc = "configure", !.job_id = job_id,
                                      !.pool = r.pool]
    /\ UNCHANGED <<ui, store, assets, scene, files, jobsTh, watcher, auth, history, display>>

FailPoints == {0, 1}

(* configure_assets after the refresh: the job file and the list handed   *)
(* to upload_assets                                                        *)
ConfiguredThread(t, as, fs, sc) ==
    LET existing == SelectSeq(as.collection, LAMBDA a : a.exists)
        script == BatchAsset(sc, RenderScript, FreshOid(as.collection))
        found == IF as.temp THEN 0 ELSE get_jobfile(as)
    IN \* the file saved to the temporary path is read from the disk fs
       IF found # 0
       THEN [t EXCEPT !.pc = "upload", !.k = 1,
                      !.uploading = Append(existing, script),
                      !.job_file = as.collection[found]]
       ELSE [t EXCEPT !.pc = "upload", !.k = 1,
                      !.uploading = Append(Append(existing, script),
                          BatchAssetOn(fs, sc, as.path, 1 + FreshOid(as.collection))),
                      !.job_file =
                          BatchAssetOn(fs, sc, as.path, 1 + FreshOid(as.collection))]

(* bpy.ops.wm.save_as_mainfile(filepath=jobpath, copy=True) *)
SavedCopy(fs, as) ==
    IF as.temp THEN (as.path :> [kind |-> "file", content |-> "saved"]) @@ fs ELSE fs

(* configure_assets up to the call of upload_assets *)
ThreadConfigureAssets ==
    /\ th.pc = "configure"
    /\ \E tmpname \in TempNames, failAt \in FailPoints :
       \E as1 \in {IF assets.path = <<>>
                   THEN RefreshOp(scene, assets, tmpname, failAt) ELSE assets} :
       \E fs1 \in {SavedCopy(files, as1)} :
          LET fresh == assets.path = <<>>
              failed == fresh /\ as1.raised = "AzureError"
              stops == fresh /\ as1.raised # "none"
          IN /\ fresh \/ failAt = 0
             /\ failAt = 0 \/ (CanFail /\ failed)
             /\ svc' = Counted(svc, IF failed THEN "raise" ELSE "ok")
             /\ assets' = [as1 EXCEPT !.raised = "none"]
             /\ page' = IF stops THEN "ERROR" ELSE page
             /\ th' = IF stops THEN Raise(th, "Exception")
                      ELSE ConfiguredThread(th, as1, fs1, scene)
             /\ files' = IF stops THEN files ELSE fs1
    /\ UNCHANGED <<props, now, ui, store, calls, scene, jobsTh, watcher, auth, history, display>>

ResourceFileByChecksum(a) == [file_path |-> a.checksum, blob_source |-> BlobName(a)]

(* models.ResourceFile(file_path=asset.name, blob_source=sas_url) *)
ResourceFile(a) == [file_path |-> a.name, blob_source |-> BlobName(a)]

UploadOutcomes == {"ok", "list_raise", "write_raise"}

Listing(o) == IF o = "list_raise" THEN "raise" ELSE "ok"

Writing(o) == IF o = "write_raise" THEN "raise" ELSE "ok"

(* upload_assets: one round of the loop over the assets *)
ThreadUploadAsset ==
    /\ th.pc = "upload"
    /\ th.k <= Len(th.uploading)
    /\ Writes(BlobName(th.uploading[th.k])) < MaxRewrites
    /\ \E o \in UploadOutcomes :
          LET a == th.uploading[th.k]
              r == UploadCall(store, a, Listing(o), Writing(o))
              \* asset.name + '_' + asset.checksum raises on a None checksum
              ok == r \in {"skipped", "written"} /\ a.checksum # None
          IN /\ Permitted(o)
             \* the outcome of the storage calls shows in the result
             /\ (o = "ok") = (r # "AzureError")
             /\ svc' = Counted(svc, o)
             /\ store' = StoreAfterUpload(store, a, r)
             /\ th' = IF ok
                      THEN [th EXCEPT !.k = @ + 1,
                                      !.uploaded = Append(@, ResourceFile(a))]
                      ELSE [th EXCEPT !.k = @ + 1, !.upfailed = @ \cup {a.name}]
    /\ UNCHANGED <<page, props, now, ui, calls, assets, scene, files, jobsTh, watcher, auth, history, display>>

(* upload_assets after the loop, and create_container (line 340) *)
ThreadCreateContainer ==
    /\ th.pc = "upload"
    /\ th.k > Len(th.uploading)
    /\ \E o \in Outcomes :
          /\ Permitted(o)
          /\ IF th.upfailed # {} THEN
                /\ o = "ok"
                /\ th' = Raise(th, "ValueError")
                /\ store' = store
             ELSE IF o = "ok" THEN
                /\ th' = [th EXCEPT !.pc = "build"]
                /\ store' = [store EXCEPT !.containers = @ \cup {th.job_id}]
             ELSE
                /\ th' = Raise(th, "AzureError")
                /\ store' = store
          /\ svc' = Counted(svc, o)
    /\ UNCHANGED <<page, props, now, ui, calls, assets, scene, files, jobsTh, watcher, auth, history, display>>

(* The task of one frame: the id is the frame number padded with zeros to  *)
(* the width of end_f, the display name is "Frame f"                       *)
FrameTask(f, end_f) ==
    [id |-> Rjust(Str(f), Len(Str(end_f)), 0),
     display_name |-> f,
     kind |-> "frame",
     depends_on |-> {}]

(* The frame tasks of range(start_f, end_f + 1) *)
FrameTasks(start_f, end_f) ==
    IF end_f < start_f THEN <<>>
    ELSE [k \in 1..(end_f - start_f + 1) |-> FrameTask(start_f + k - 1, end_f)]

(* submit_job, lines 343-374: the task list, or the exception raised while *)
(* building it.  The LuxRender loop reads pools.lux_app_image, which       *)
(* PoolProps does not define; merge_task names render_script, which it     *)
(* never binds (it binds merge_script)                                     *)
BuildTasks(p) ==
    LET frames == FrameTasks(p.start_f, p.end_f)
    IN IF p.lux
       THEN (IF frames # <<>> THEN [exc |-> "AttributeError", tasks |-> <<>>]
             ELSE [exc |-> "none", tasks |-> <<>>])
       ELSE IF p.video_merge THEN [exc |-> "NameError", tasks |-> frames]
       ELSE [exc |-> "none", tasks |-> frames]

ThreadBuildTasks ==
    /\ th.pc = "build"
    /\ LET b == BuildTasks(props)
       IN th' = IF b.exc # "none" THEN Raise(th, b.exc)
                ELSE [th EXCEPT !.pc = "job_add", !.tasks = b.tasks]
    /\ UNCHANGED <<page, props, now, ui, svc, store, calls, assets, scene, files, jobsTh, watcher, auth, history, display>>

(* The pool a job runs on: the referenced pool, or the auto-pool the       *)
(* service creates for the job from its specification                      *)
RunsOn(job_id, pool) ==
    IF pool.pool_id # NoId THEN pool.pool_id
    ELSE TimedId(pool.auto_pool_specification.auto_pool_id_prefix, job_id.t)

(* batch.job.add (line 377) *)
ThreadJobAdd ==
    /\ th.pc = "job_add"
    /\ \E o \in Outcomes :
          /\ Permitted(o)
          /\ IF o = "ok" THEN
                /\ svc' = [svc EXCEPT !.jobs = @ @@
                             (th.job_id :> [pool |-> th.pool,
                                             runs_on |-> RunsOn(th.job_id, th.pool),
                                             tasks |-> <<>>])]
                /\ th' = [th EXCEPT !.pc = "add_coll", !.i = 0]
                /\ calls' = calls
             ELSE
                /\ svc' = Counted(svc, o)
                /\ th' = [th EXCEPT !.pc = "cleanup", !.exc = "BatchError"]
                /\ calls' = [calls EXCEPT !.failure = TRUE]
    /\ UNCHANGED <<page, props, now, ui, store, assets, scene, files, jobsTh, watcher, auth, history, display>>

(* job_tasks[i:i+100] *)
Slice(tasks, i) == SubSeq(tasks, i + 1, Min(i + BatchSize, Len(tasks)))

MoreBatchesFullOnly(tasks, i) == i + BatchSize <= Len(tasks)

(* The loop test of range(0, len(job_tasks), 100) *)
MoreBatches(tasks, i) == i < Len(tasks)

(* One round of the loop: batch.task.add_collection (line 380) and the     *)
(* collection of the tasks that were not added ("partial": the service     *)
(* answers, with a status other than success for the last task)            *)
ThreadAddCollection ==
    /\ th.pc = "add_coll"
    /\ MoreBatches(th.tasks, th.i)
    /\ \E o \in {"ok", "partial", "raise"} :
          LET batch == Slice(th.tasks, th.i)
              accepted == IF o = "ok" THEN batch
                          ELSE IF o = "partial" THEN Front(batch) ELSE <<>>
          IN /\ Permitted(o)
             /\ calls' = [calls EXCEPT !.add = Append(@, batch),
                                       !.failure = @ \/ o # "ok"]
             /\ svc' = Counted([svc EXCEPT !.jobs[th.job_id].tasks = @ \o accepted], o)
             /\ th' = IF o = "raise"
                      THEN [th EXCEPT !.pc = "cleanup", !.exc = "BatchError"]
                      ELSE [th EXCEPT !.i = @ + BatchSize,
                                      !.failed = IF o = "partial"
                                                 THEN Append(@, Last(batch).id) ELSE @]
    /\ UNCHANGED <<page, props, now, ui, store, assets, scene, files, jobsTh, watcher, auth, history, display>>

HasFailedIgnored(failed) == FALSE

(* "if failed_tasks:" (line 384) *)
HasFailed(failed) == failed # <<>>

(* After the loop (lines 384-386) *)
ThreadCheckFailed ==
    /\ th.pc = "add_coll"
    /\ ~MoreBatches(th.tasks, th.i)
    /\ th' = IF HasFailed(th.failed)
             THEN [th EXCEPT !.pc = "cleanup", !.exc = "ValueError"]
             ELSE [th EXCEPT !.pc = "finish"]
    /\ UNCHANGED <<page, props, now, ui, svc, store, calls, assets, scene, files, jobsTh, watcher, auth, history, display>>

(* The handler of line 392 names Exceptopn: when a cleanup call raises,    *)
(* evaluating the except clause raises NameError                           *)
CleanupRaises(t) == Raise(t, "NameError")

(* batch.job.delete (line 389); the service knows no such job when job.add *)
(* failed, and the call raises                                             *)
ThreadJobDelete ==
    /\ th.pc = "cleanup"
    /\ \E o \in Outcomes :
          LET known == th.job_id \in DOMAIN svc.jobs
          IN /\ Permitted(o)
             /\ known \/ o = "ok"
             /\ calls' = [calls EXCEPT !.cleanup = Append(@, "job.delete")]
             /\ IF o = "ok" /\ known THEN
                   /\ svc' = [svc EXCEPT !.jobs =
                                [j \in DOMAIN @ \ {th.job_id} |-> @[j]]]
                   /\ th' = [th EXCEPT !.pc = "del_container"]
                ELSE
                   /\ svc' = Counted(svc, o)
                   /\ th' = CleanupRaises(th)
    /\ UNCHANGED <<page, props, now, ui, store, assets, scene, files, jobsTh, watcher, auth, history, display>>

(* uploader.delete_container (line 390), then the bare raise (line 394) *)
ThreadDeleteContainer ==
    /\ th.pc = "del_container"
    /\ \E o \in Outcomes :
          /\ Permitted(o)
          /\ calls' = [calls EXCEPT !.cleanup = Append(@, "delete_container")]
          /\ svc' = Counted(svc, o)
          /\ IF o = "ok" THEN
                /\ store' = [store EXCEPT !.containers = @ \ {th.job_id}]
                /\ th' = Raise(th, th.exc)
             ELSE
                /\ store' = store
                /\ th' = CleanupRaises(th)
    /\ UNCHANGED <<page, props, now, ui, assets, scene, files, jobsTh, watcher, auth, history, display>>

(* submit_job, lines 396-400 *)
ThreadFinish ==
    /\ th.pc = "finish"
    /\ page' = session("none", "SUBMITTED", "returned").page
    /\ assets' = set_uploaded(assets)
    /\ th' = [th EXCEPT !.pc = "done", !.ret = session("none", "SUBMITTED", "returned").ret]
    /\ UNCHANGED <<props, now, ui, svc, store, calls, scene, files, jobsTh, watcher, auth, history, display>>

(* BatchOps.session: the except clause *)
ThreadCatch ==
    /\ th.pc = "catch"
    /\ page' = session(th.exc, page, "returned").page
    /\ th' = [th EXCEPT !.pc = "done", !.ret = session(th.exc, page, "returned").ret]
    /\ UNCHANGED <<props, now, ui, svc, store, calls, assets, scene, files, jobsTh, watcher, auth, history, display>>

----------------------------------------------------------------------------
(* The assets page *)

(* BatchAssets._assets: the assets.page operator *)
AssetsPage ==
    /\ UiFree
    /\ page = "HOME"
    /\ \E tmpname \in TempNames, failAt \in FailPoints :
          \* get_jobpath and generate_collection, as in _refresh
          LET as == RefreshOp(scene, assets, tmpname, failAt)
              failed == as.raised = "AzureError"
          IN /\ failAt = 0 \/ (CanFail /\ failed)
             /\ svc' = Counted(svc, IF failed THEN "raise" ELSE "ok")
             /\ assets' = [as EXCEPT !.raised = "none"]
             /\ page' = session(as.raised, "ASSETS", "FINISHED").page
             /\ ui' = OpDone(ui, "assets.page", as.raised, "FINISHED")
    /\ UNCHANGED <<props, now, th, store, calls, scene, files, jobsTh, watcher, auth, history, display>>

(* BatchAssets._refresh: the assets.refresh operator *)
AssetsRefresh ==
    /\ UiFree
    /\ page = "ASSETS"
    /\ \E tmpname \in TempNames, failAt \in FailPoints :
          LET as == RefreshOp(scene, assets, tmpname, failAt)
              failed == as.raised = "AzureError"
          IN /\ failAt = 0 \/ (CanFail /\ failed)
             /\ svc' = Counted(svc, IF failed THEN "raise" ELSE "ok")
             /\ assets' = [as EXCEPT !.raised = "none"]
             /\ page' = session(as.raised, page, "FINISHED").page
             /\ ui' = OpDone(ui, "assets.refresh", as.raised, "FINISHED")
    /\ UNCHANGED <<props, now, th, store, calls, scene, files, jobsTh, watcher, auth, history, display>>

(* The loop of BatchAssets._upload over the selected indexes; the storage  *)
(* calls for index bad end as o says                                       *)
RECURSIVE UploadSelected(_, _, _, _, _)
UploadSelected(st, as, sel, bad, o) ==
    IF sel = {} THEN [store |-> st, assets |-> as]
    ELSE LET index == CHOOSE k \in sel : \A h \in sel : k <= h
             asset == as.collection[index]
             r == UploadCall(st, asset,
                             IF index = bad THEN Listing(o) ELSE "ok",
                             IF index = bad THEN Writing(o) ELSE "ok")
         IN UploadSelected(
                StoreAfterUpload(st, asset, r),
                [as EXCEPT !.assets[index].upload_check = r \in {"skipped", "written"}],
                sel \ {index}, bad, o)

(* BatchAssets._upload: the assets.upload operator on the checked entries *)
AssetsUpload ==
    /\ UiFree
    /\ page = "ASSETS"
    /\ \E sel \in SUBSET (1..Min(Len(assets.assets), Len(assets.collection))) :
       \E bad \in sel \cup {0}, o \in UploadOutcomes :
          /\ sel # {}
          /\ bad = 0 <=> o = "ok"
          /\ Permitted(o)
          /\ \A k \in sel : Writes(BlobName(assets.collection[k])) < MaxRewrites
          /\ LET r == UploadSelected(store, assets, sel, bad, o)
             IN /\ store' = r.store
                /\ assets' = r.assets
          /\ svc' = Counted(svc, o)
    /\ page' = session("none", page, "FINISHED").page
    /\ ui' = OpDone(ui, "assets.upload", "none", "FINISHED")
    /\ UNCHANGED <<props, now, th, calls, scene, files, jobsTh, watcher, auth, history, display>>

(* The files the user picks in the file browser of assets.add: the .blend  *)
(* file of the scene, which the list holds unless it was removed, and a    *)
(* file that does not exist                                                *)
(* BatchAssets._add_execute, up to its return or the exception it raises.  *)
(* bool(user_file) is true whether the file exists or not: BatchAsset      *)
(* defines neither __bool__ nor __len__                                    *)
AddOp(sc, as0, filepath, listing) ==
    LET user_file == BatchAsset(sc, filepath, FreshOid(as0.collection))
    IN IF TRUE /\ ~AssetIn(user_file, as0.collection)
       THEN add_asset([as0 EXCEPT !.raised = "none"], user_file, listing)
       ELSE [as0 EXCEPT !.raised = "none"]

(* BatchAssets._add_execute: the assets.add operator, after the file       *)
(* browser of _add_invoke has set op.filepath                              *)
AssetsAdd ==
    /\ UiFree
    /\ page = "ASSETS"
    /\ assets.edits < MaxEdits
    /\ \E filepath \in {BlendA, <<"proj", "missing.png">>}, o \in Outcomes :
          LET as == AddOp(scene, assets, filepath, o)
          IN /\ Permitted(o)
             /\ svc' = Counted(svc, o)
             /\ assets' = [as EXCEPT !.raised = "none", !.edits = @ + 1]
             /\ page' = session(as.raised, page, "FINISHED").page
             /\ ui' = OpDone(ui, "assets.add", as.raised, "FINISHED")
    /\ UNCHANGED <<props, now, th, store, calls, scene, files, jobsTh, watcher, auth, history, display>>

(* AssetProps.remove_selected; list.pop raises IndexError past the end,    *)
(* before the display list is touched                                      *)
remove_selected(as) ==
    LET Without(q, i) == [k \in 1..(Len(q) - 1) |-> IF k <= i THEN q[k] ELSE q[k + 1]]
        i == as.index
    IN IF i >= Len(as.collection) THEN [as EXCEPT !.raised = "IndexError"]
       ELSE [as EXCEPT !.collection = Without(@, i),
                       !.assets = IF i < Len(@) THEN Without(@, i) ELSE @,
                       !.index = IF i - 1 > 0 THEN i - 1 ELSE 0]

(* BatchAssets._remove: the assets.remove operator on the row the user     *)
(* selected in the list                                                    *)
AssetsRemove ==
    /\ UiFree
    /\ page = "ASSETS"
    /\ assets.edits < MaxEdits
    /\ \E index \in 0..(IF assets.assets = <<>> THEN 0 ELSE Len(assets.assets) - 1) :
          LET as == IF assets.assets # <<>>
                    THEN remove_selected([assets EXCEPT !.index = index, !.raised = "none"])
                    ELSE [assets EXCEPT !.raised = "none"]
          IN /\ assets' = [as EXCEPT !.raised = "none", !.edits = @ + 1]
             /\ page' = session(as.raised, page, "FINISHED").page
             /\ ui' = OpDone(ui, "assets.remove", as.raised, "FINISHED")
    /\ UNCHANGED <<props, now, th, svc, store, calls, scene, files, jobsTh, watcher, auth, history, display>>

(* The .blend files are opened in this order *)
NextScenes(sc) ==
    IF sc = SceneA THEN {SceneB}
    ELSE IF sc = SceneB THEN {SceneU}
    ELSE IF sc = SceneU THEN {SceneL}
    ELSE {}

on_loadKeepsPath(as) == as

(* props_assets.on_load, line 40: the job file path is cleared *)
on_load(as) == [as EXCEPT !.path = <<>>]

(* props_assets.on_load: another .blend file is opened *)
OnLoad ==
    /\ UiFree
    /\ \E sc \in NextScenes(scene), tmpname \in TempNames, failAt \in FailPoints :
          /\ scene' = sc
          /\ IF page = "ASSETS"
             THEN \* bpy.ops.batch_assets.refresh() in the scene just loaded
                  LET as == RefreshOp(sc, on_load(assets), tmpname, failAt)
                      failed == as.raised = "AzureError"
                  IN /\ failAt = 0 \/ (CanFail /\ failed)
                     /\ svc' = Counted(svc, IF failed THEN "raise" ELSE "ok")
                     /\ assets' = [as EXCEPT !.raised = "none"]
                     /\ page' = session(as.raised, page, "FINISHED").page
                     /\ ui' = OpDone(ui, "assets.refresh", as.raised, "FINISHED")
             ELSE /\ tmpname = "BATCHTMP_1.blend"
                  /\ failAt = 0
                  /\ svc' = svc
                  /\ assets' = on_load(assets)
                  /\ page' = page
                  /\ ui' = ui
    /\ UNCHANGED <<props, now, th, store, calls, files, jobsTh, watcher, auth, history, display>>

----------------------------------------------------------------------------
(* The pools page *)

(* The filter of the listing: ids starting with "blender", or with "lux"   *)
(* under LuxRender                                                         *)
Listed(id, lux) ==
    IF lux THEN id.prefix \in {"luxblend_pool", "luxblend_auto"}
    ELSE id.prefix \in {"blender_pool", "blender_auto"}

(* BatchPools._pools: the pools.page operator *)
PoolsPage ==
    /\ UiFree
    /\ page = "HOME"
    /\ \E o \in Outcomes :
          /\ Permitted(o)
          /\ svc' = Counted(svc, o)
          /\ IF o = "ok" THEN
                /\ page' = session("none", "POOLS", "FINISHED").page
                /\ ui' = OpDone([ui EXCEPT !.pools =
                            {[id |-> id, auto |-> id.prefix = "blender_auto"] : id \in {q \in svc.pools : Listed(q, props.lux)}}],
                          "pools.page", "none", "FINISHED")
             ELSE
                /\ page' = session("BatchError", page, "FINISHED").page
                /\ ui' = OpDone([ui EXCEPT !.pools = {}], "pools.page", "BatchError", "FINISHED")
    /\ UNCHANGED <<props, now, th, store, calls, assets, scene, files, jobsTh, watcher, auth, history, display>>

----------------------------------------------------------------------------
(* The jobs page *)

(* BatchJobs._jobs and _loading_invoke: the jobs.page operator *)
JobsPage ==
    /\ UiFree
    /\ page = "HOME"
    /\ page' = session("none", "LOADING", "FINISHED").page
    /\ jobsTh' = "running"
    /\ ui' = OpDone([ui EXCEPT !.jobs_modal = TRUE], "jobs.page", "none", "FINISHED")
    /\ UNCHANGED <<props, now, th, svc, store, calls, assets, scene, files, watcher, auth, history, display>>

(* JobsThread: BatchOps.session(self.get_job_list) *)
JobsThreadRun ==
    /\ jobsTh = "running"
    /\ \E o \in Outcomes :
          /\ Permitted(o)
          /\ svc' = Counted(svc, o)
          /\ page' = session(IF o = "ok" THEN "none" ELSE "BatchError", "JOBS", "returned").page
    /\ jobsTh' = "done"
    /\ UNCHANGED <<props, now, th, ui, store, calls, assets, scene, files, watcher, auth, history, display>>

(* BatchJobs._loading_modal *)
LoadingModal ==
    /\ ui.jobs_modal
    /\ \E event \in Events :
          ui' = [ui EXCEPT !.jobs_modal = ModalReturn(event, JobsAlive) = "RUNNING_MODAL"]
    /\ UNCHANGED <<page, props, now, th, svc, store, calls, assets, scene, files, jobsTh, watcher, auth, history, display>>

----------------------------------------------------------------------------
(* The job watcher *)

(* __main__ up to the loop of track_job_progress: the job and its tasks    *)
(* are fetched                                                             *)
WatcherStart ==
    /\ watcher.pc = "off"
    /\ \E state \in JobState, done \in 0..MaxOutputs :
          watcher' = [watcher EXCEPT !.pc = "track", !.job = state, !.completed = done]
    /\ UNCHANGED <<page, props, now, th, ui, svc, store, calls, assets, scene, files, jobsTh, auth, history, display>>

(* _track_completed_tasks: every listed output that is not yet in the      *)
(* download directory is fetched                                           *)
WatcherTrack ==
    /\ watcher.pc = "track"
    /\ \E listed \in 0..watcher.completed :
          watcher' = [watcher EXCEPT !.pc = "check",
                                     !.downloaded = IF listed > @ THEN listed ELSE @]
    /\ UNCHANGED <<page, props, now, th, ui, svc, store, calls, assets, scene, files, jobsTh, auth, history, display>>

(* track_job_progress, line 138: "if _check_job_stopped(job): return";     *)
(* a RuntimeError ends the script with the message as exit string          *)
WatcherCheck ==
    /\ watcher.pc = "check"
    /\ LET r == _check_job_stopped(watcher.job)
       IN watcher' = [watcher EXCEPT
                         !.stopped = r,
                         !.pc = IF r \in {"True", "RuntimeError"} THEN "exit" ELSE "sleep",
                         !.exit = IF r = "RuntimeError" THEN "RuntimeError" ELSE ""]
    /\ UNCHANGED <<page, props, now, th, ui, svc, store, calls, assets, scene, files, jobsTh, auth, history, display>>

(* track_job_progress, lines 141-143: sleep, then the job and its tasks    *)
(* are fetched again                                                       *)
WatcherSleep ==
    /\ watcher.pc = "sleep"
    /\ \E state \in JobState, done \in watcher.completed..MaxOutputs :
          watcher' = [watcher EXCEPT !.pc = "track", !.job = state, !.completed = done]
    /\ UNCHANGED <<page, props, now, th, ui, svc, store, calls, assets, scene, files, jobsTh, auth, history, display>>

----------------------------------------------------------------------------
(* Authentication of the Batch Apps add-on *)

AuthAlive == auth.pc \in {"auto", "web", "decide"}

(* BatchAppsSettings.start: the page after the sub-pages are set up *)
start(creds) == "HOME"

(* BatchAppsSettings.__init__, lines 95-104: auto_authentication when the  *)
(* add-on is loaded; onDisk tells whether an earlier run of Blender left a *)
(* cached session                                                          *)
AddonStart ==
    /\ auth.pc = "off"
    /\ \E unattended \in BOOLEAN, onDisk \in BOOLEAN :
          IF unattended THEN
             /\ auth' = [auth EXCEPT !.pc = "idle", !.tried = <<"unattended">>,
                                     !.credentials = "unattended", !.cached = onDisk]
             /\ page' = start("unattended")
          ELSE IF onDisk THEN
             /\ auth' = [auth EXCEPT !.pc = "idle", !.tried = <<"unattended", "cached">>,
                                     !.credentials = "cached", !.cached = TRUE]
             /\ page' = start("cached")
          ELSE
             /\ auth' = [auth EXCEPT !.pc = "idle", !.tried = <<"unattended", "cached">>]
             /\ page' = page
    /\ UNCHANGED <<props, now, th, ui, svc, store, calls, assets, scene, files, jobsTh, watcher, history, display>>

(* BatchAppsAuth._login and _redirect_invoke: the auth.login operator *)
Login ==
    /\ page = "LOGIN"
    /\ auth.pc # "off"
    /\ ~AuthAlive /\ ~auth.modal
    /\ auth.logins < MaxLogins
    /\ auth' = [auth EXCEPT !.pc = "auto", !.tried = <<>>, !.modal = TRUE,
                            !.logins = @ + 1]
    /\ page' = "REDIRECT"
    /\ UNCHANGED <<props, now, th, ui, svc, store, calls, assets, scene, files, jobsTh, watcher, history, display>>

(* BatchAppsAuth._redirect_modal *)
RedirectModal ==
    /\ auth.modal
    /\ \E event \in Events :
          auth' = [auth EXCEPT !.modal = ModalReturn(event, AuthAlive) = "RUNNING_MODAL"]
    /\ UNCHANGED <<page, props, now, th, ui, svc, store, calls, assets, scene, files, jobsTh, watcher, history, display>>

(* web_authentication, lines 371-375, with auto_authentication: the        *)
(* unattended session, then the cached one                                 *)
AuthAuto ==
    /\ auth.pc = "auto"
    /\ \E unattended \in BOOLEAN :
          IF unattended THEN
             /\ auth' = [auth EXCEPT !.pc = "done", !.tried = <<"unattended">>,
                                     !.credentials = "unattended"]
             /\ page' = start("unattended")
          ELSE IF auth.cached THEN
             /\ auth' = [auth EXCEPT !.pc = "done", !.tried = <<"unattended", "cached">>,
                                     !.credentials = "cached"]
             /\ page' = start("cached")
          ELSE
             /\ auth' = [auth EXCEPT !.pc = "web", !.tried = <<"unattended", "cached">>]
             /\ page' = page
    /\ UNCHANGED <<props, now, th, ui, svc, store, calls, assets, scene, files, jobsTh, watcher, history, display>>

(* open_websession and wait_for_request: the browser is opened and the     *)
(* redirect server handles one request or times out                        *)
AuthOpenWeb ==
    /\ auth.pc = "web"
    /\ \E o \in Outcomes, request \in Redirects :
          /\ o = "raise" => request = NoCode
          /\ auth' = IF o = "raise"
                     THEN [auth EXCEPT !.pc = "raised", !.tried = Append(@, "browser")]
                     ELSE [auth EXCEPT !.pc = "decide", !.tried = Append(@, "browser"),
                                       !.code = request]
    /\ UNCHANGED <<page, props, now, th, ui, svc, store, calls, assets, scene, files, jobsTh, watcher, history, display>>

(* web_authentication, lines 379-403 *)
AuthDecide ==
    /\ auth.pc = "decide"
    /\ \E o \in Outcomes :
          IF auth.code = NoCode THEN
             /\ o = "ok"
             /\ page' = "LOGIN"
             /\ auth' = [auth EXCEPT !.pc = "done"]
          ELSE IF Find(auth.code, "/?error=", 0) >= 0 THEN
             LET error == decode_error(auth.code, "/?error=")
                 found == decode_error(auth.code, "&error_description=")
             IN /\ o = "ok"
                /\ IF found = NoneValue
                   THEN \* None.replace raises AttributeError
                        /\ page' = page
                        /\ auth' = [auth EXCEPT !.pc = "raised"]
                   ELSE /\ page' = "ERROR"
                        /\ auth' = [auth EXCEPT !.pc = "done",
                                                \* .replace('+', ' ')
                                                !.logged = <<error,
                                                    [k \in 1..Len(found) |->
                                                       IF found[k] = "+" THEN " "
                                                       ELSE found[k]]>>]
          ELSE IF o = "ok" THEN
             /\ page' = start("web")
             /\ auth' = [auth EXCEPT !.pc = "done", !.credentials = "web", !.cached = TRUE]
          ELSE
             /\ page' = page
             /\ auth' = [auth EXCEPT !.pc = "raised"]
    /\ UNCHANGED <<props, now, th, ui, svc, store, calls, assets, scene, files, jobsTh, watcher, history, display>>

(* BatchAppsSettings._home: the shared.home operator on the ERROR page *)
AppsHome ==
    /\ page = "ERROR"
    /\ auth.pc # "off"
    /\ ~AuthAlive /\ ~auth.modal
    /\ page' = "HOME"
    /\ UNCHANGED <<props, now, th, ui, svc, store, calls, assets, scene, files, jobsTh, watcher, auth, history, display>>

(* BatchAppsAuth._logout: the auth.logout operator *)
Logout ==
    /\ page = "HOME"
    /\ auth.pc # "off"
    /\ ~AuthAlive /\ ~auth.modal
    /\ auth' = [auth EXCEPT !.credentials = "none",
                            !.cached = IF auth.credentials # "none" THEN FALSE ELSE @]
    /\ page' = "LOGIN"
    /\ UNCHANGED <<props, now, th, ui, svc, store, calls, assets, scene, files, jobsTh, watcher, history, display>>

----------------------------------------------------------------------------
(* batchapps_blender history: the job list and its paging controls *)

(* BatchAppsHistory.get_job_list: o is the outcome of batchapps.get_jobs,  *)
(* which returns the jobs from index on, per_call of them at most; what    *)
(* it raises passes through the session wrapper of batchapps_blender.utils *)
get_job_list(h, o) ==
    IF o = "raise"
    THEN [h EXCEPT !.jobs = 0, !.exc = "RestCallException"]
    ELSE [h EXCEPT !.jobs = IF h.remote - h.index < 0 THEN 0
                             ELSE Min(PerCall, h.remote - h.index),
                   !.total_count = h.remote,
                   !.exc = "none"]

(* ui_history.page_controls: whether the button of operator op is enabled  *)
(* when the page pg is drawn (loading draws the controls for 0 jobs)       *)
page_controls(h, pg, op) ==
    LET num_jobs == IF pg = "HISTORY" THEN h.jobs ELSE 0
    IN CASE op \in {"first", "less"} -> h.index # 0
         [] op \in {"more", "last"} -> (h.index + num_jobs) # h.total_count
         [] OTHER -> TRUE

(* BatchAppsHistory._history up to the return of history.loading, whose    *)
(* invoke starts the HistoryThread                                         *)
HistoryPage ==
    /\ page = "HOME"
    /\ history.pc = "off"
    /\ history' = [history EXCEPT !.pc = "test", !.thread = "running",
                                  !.selected = -1, !.index = 0, !.total_count = 0]
    /\ UNCHANGED <<page, props, now, th, ui, svc, store, calls, assets, scene, files, jobsTh, watcher, auth, display>>

(* _history: the test of "if page == HOME" and the assignment of LOADING   *)
HistoryEnter ==
    \/ /\ history.pc = "test"
       /\ history' = [history EXCEPT !.pc = "set", !.seen = (page = "HOME")]
       /\ UNCHANGED <<page, props, now, th, ui, svc, store, calls, assets, scene, files, jobsTh, watcher, auth, display>>
    \/ /\ history.pc = "set"
       /\ page' = IF history.seen THEN "LOADING" ELSE page
       /\ history' = [history EXCEPT !.pc = "shown", !.seen = FALSE]
       /\ UNCHANGED <<props, now, th, ui, svc, store, calls, assets, scene, files, jobsTh, watcher, auth, display>>

(* HistoryThread: BatchAppsOps.session(self.get_job_list) *)
HistoryLoad ==
    /\ history.thread = "running"
    /\ \E o \in Outcomes :
          /\ Permitted(o)
          /\ svc' = Counted(svc, o)
          /\ history' = [get_job_list(history, o) EXCEPT !.thread = "ended"]
          /\ page' = IF o = "ok" THEN "HISTORY" ELSE page
    /\ UNCHANGED <<props, now, th, ui, store, calls, assets, scene, files, jobsTh, watcher, auth, display>>

(* _first, _last, _more, _less and _refresh, run from a button that the    *)
(* page drawn last shows enabled, while no thread runs                     *)
HistoryPaging ==
    /\ page \in {"HISTORY", "LOADING"}
    /\ history.pc = "shown" /\ history.thread = "ended"
    /\ \E op \in {"first", "last", "more", "less", "refresh"}, o \in Outcomes :
          /\ page_controls(history, page, op)
          /\ Permitted(o)
          /\ svc' = Counted(svc, o)
          /\ \E index \in {CASE op = "first" -> 0
                             [] op = "last" ->
                                  IF history.total_count % PerCall = 0
                                  THEN history.total_count - PerCall
                                  ELSE LET div == PerCall - (history.total_count % PerCall)
                                       IN history.total_count - PerCall + div
                             [] op = "more" -> history.index + PerCall
                             [] op = "less" -> history.index - PerCall
                             [] OTHER -> history.index} :
                /\ index <= MaxJobs
                /\ history' = get_job_list([history EXCEPT !.index = index, !.op = op], o)
          /\ page' = IF o = "ok" THEN "HISTORY" ELSE page
    /\ UNCHANGED <<props, now, th, ui, store, calls, assets, scene, files, jobsTh, watcher, auth, display>>

(* A job is submitted to the service, from this or another session, while  *)
(* the history is displayed                                                *)
JobSubmitted ==
    /\ history.remote < MaxJobs
    /\ history' = [history EXCEPT !.remote = @ + 1]
    /\ UNCHANGED <<page, props, now, th, ui, svc, store, calls, assets, scene, files, jobsTh, watcher, auth, display>>

----------------------------------------------------------------------------
(* batchapps_blender props_submission: the frame range of a submission *)

framecheckKeepsEnd(f, pg) ==
    IF pg # "SUBMIT" THEN f
    ELSE [f EXCEPT !.valid_range =
                      ~((f.start_f < f.frame_start) \/ (f.end_f > f.frame_end))]

(* framecheck: f is the submission display with the scene's frame range *)
framecheck(f, pg) ==
    IF pg # "SUBMIT" THEN f
    ELSE LET g == IF f.end_f < f.start_f THEN [f EXCEPT !.end_f = f.start_f] ELSE f
         IN [g EXCEPT !.valid_range =
                         ~((g.start_f < g.frame_start) \/ (g.end_f > g.frame_end))]

(* The scene_update_post handler runs *)
FrameCheck ==
    /\ display' = framecheck(display, page)
    /\ UNCHANGED <<page, props, now, th, ui, svc, store, calls, assets, scene, files, jobsTh, watcher, auth, history>>

(* The user edits start_f or end_f on the panel, or the frame range of the *)
(* scene on the timeline                                                   *)
SetFrames ==
    /\ \E a \in 0..MaxFrame, b \in 0..MaxFrame :
          \/ display' = [display EXCEPT !.start_f = a]
          \/ display' = [display EXCEPT !.end_f = a]
          \/ a <= b /\ display' = [display EXCEPT !.frame_start = a, !.frame_end = b]
    /\ UNCHANGED <<page, props, now, th, ui, svc, store, calls, assets, scene, files, jobsTh, watcher, auth, history>>

----------------------------------------------------------------------------
(* Specifications *)

Submitting ==
    \/ Home
    \/ SubmissionPage
    \/ StartInvoke
    \/ StartTest
    \/ StartSet
    \/ ProcessingModal
    \/ ThreadGetPool
    \/ ThreadConfigureAssets
    \/ ThreadUploadAsset
    \/ ThreadCreateContainer
    \/ ThreadBuildTasks
    \/ ThreadJobAdd
    \/ ThreadAddCollection
    \/ ThreadCheckFailed
    \/ ThreadJobDelete
    \/ ThreadDeleteContainer
    \/ ThreadFinish
    \/ ThreadCatch

NextPools ==
    \/ Submitting
    \/ PoolsPage
    \/ JobsPage
    \/ JobsThreadRun
    \/ LoadingModal

NextAssets ==
    \/ Submitting
    \/ AssetsPage
    \/ AssetsRefresh
    \/ AssetsUpload
    \/ OnLoad

NextEdit ==
    \/ Submitting
    \/ AssetsPage
    \/ AssetsRefresh
    \/ AssetsAdd
    \/ AssetsRemove

NextHistory ==
    \/ HistoryPage
    \/ HistoryEnter
    \/ HistoryLoad
    \/ HistoryPaging
    \/ JobSubmitted

NextFrames ==
    \/ Home
    \/ SubmissionPage
    \/ SetFrames
    \/ FrameCheck

NextWatcher ==
    \/ WatcherStart
    \/ WatcherTrack
    \/ WatcherCheck
    \/ WatcherSleep

NextAuth ==
    \/ AddonStart
    \/ Login
    \/ RedirectModal
    \/ AuthAuto
    \/ AuthOpenWeb
    \/ AuthDecide
    \/ AppsHome
    \/ Logout

(* Job submission over frame ranges of every size *)
Spec == Init /\ [][Submitting]_vars

(* Job submission and the pools and jobs pages over every pool setting *)
SpecPools == InitPools /\ [][NextPools]_vars

(* Job submission and the assets page over every scene *)
SpecAssets == InitAssets /\ [][NextAssets]_vars

(* Logging in to the Batch Apps add-on and out of it *)
SpecAuth == InitAuth /\ [][NextAuth]_vars

(* The job history paged while jobs are submitted *)
SpecHistory == InitHistory /\ [][NextHistory]_vars

(* The frame range edited on and off the submission page *)
SpecFrames == InitFrames /\ [][NextFrames]_vars

(* The job watcher script on a job in every state *)
SpecWatcher == InitWatcher /\ [][NextWatcher]_vars

(* Job submission and the assets page with files added and removed by hand *)
SpecEdit == InitEdit /\ [][NextEdit]_vars

----------------------------------------------------------------------------
(* Job submission: rollback, all-or-nothing, the task list, the batches *)

(* The step with which the run of submit_job in the session wrapper ends *)
EndsRun == th.pc # "done" /\ th'.pc = "done"

JobExists == th.job_id \in DOMAIN svc.jobs

(* The tasks the settings ask for are all held by the job *)
AllAccepted ==
    /\ JobExists
    /\ ~(props.video_merge /\ ~props.lux)
    /\ svc.jobs[th.job_id].tasks = FrameTasks(props.start_f, props.end_f)

(* C1: when job.add or an add_collection call raised, or a task came back  *)
(* with a status other than success, the run that has ended has called     *)
(* job.delete and then delete_container, has propagated the failure, and   *)
(* the page is not SUBMITTED                                               *)
C1_RollbackCallsBoth ==
    (th.pc = "done" /\ calls.failure)
        => /\ calls.cleanup = <<"job.delete", "delete_container">>
           /\ th.ret = "CANCELLED"
           /\ page # "SUBMITTED"

AskedTasks(tasks, p) ==
    LET n == p.end_f - p.start_f + 1
        merging == p.video_merge /\ ~p.lux
    IN /\ Len(tasks) = IF merging THEN n + 1 ELSE n
       /\ \A k \in 1..n : tasks[k] = FrameTask(p.start_f + k - 1, p.end_f)
       /\ \A k, h \in 1..n : tasks[k].id = tasks[h].id => k = h
       /\ merging => /\ tasks[n + 1].kind = "merge"
                     /\ tasks[n + 1].depends_on = {tasks[k].id : k \in 1..n}

(* C3: for start_f <= end_f and either engine, the step of submit_job that *)
(* builds the task list ends with the list the settings ask for            *)
C3_TaskListBuilt ==
    [][(th.pc = "build" /\ th'.pc # "build" /\ props.start_f <= props.end_f)
          => (th'.pc = "job_add" /\ AskedTasks(th'.tasks, props))]_vars

(* The batches handed to add_collection so far, one after the other *)
Submitted == Concat(calls.add)

(* C4: the batches handed to add_collection each hold 1 to 100 tasks and   *)
(* are, in call order, a prefix of the task list cut every 100 tasks; when *)
(* the loop has run to its end there are ceil(n/100) batches and together  *)
(* they are the task list                                                  *)
C4_Batches ==
    (th.pc \in {"add_coll", "finish"} \/ (th.pc = "done" /\ JobExists))
        => /\ \A c \in 1..Len(calls.add) :
                /\ Len(calls.add[c]) \in 1..BatchSize
                /\ c < Len(calls.add) => Len(calls.add[c]) = BatchSize
           /\ Len(Submitted) <= Len(th.tasks)
           /\ Submitted = SubSeq(th.tasks, 1, Len(Submitted))
           /\ ((th.pc = "add_coll" /\ ~MoreBatches(th.tasks, th.i)) \/ th.pc = "finish")
                => /\ Len(calls.add) = (Len(th.tasks) + BatchSize - 1) \div BatchSize
                   /\ Submitted = th.tasks

(* a list of 201 tasks went out in three batches, the last of one task *)
C4_Witness ==
    /\ th.pc = "finish"
    /\ Len(th.tasks) = 2 * BatchSize + 1
    /\ Len(calls.add) = 3
    /\ Len(calls.add[3]) = 1

----------------------------------------------------------------------------
(* Assets: uploads and the collected list *)

(* One round of the loop of upload_assets: asset.upload() has been called  *)
(* on the asset at th.k                                                    *)
UploadStep == th.pc = "upload" /\ th'.pc = "upload" /\ th'.k = th.k + 1

Uploading == th.uploading[th.k]

BlobListed(a) == BlobName(a) \in store.blobs

(* create_blob_from_path has written a blob in this step *)
Wrote == store'.writes # store.writes

(* No call of the storage account has raised in this step *)
StorageAnswers == svc'.faults = svc.faults

(* C5 as stated, for calls the storage account answers: upload writes a    *)
(* blob if and only if the file exists and no blob <name>_<checksum> is    *)
(* listed; a listed blob means no write; after a write the blob is present *)
C5_WritesIffAbsent ==
    [][(UploadStep /\ StorageAnswers)
          => /\ Wrote <=> (Uploading.exists /\ ~BlobListed(Uploading))
             /\ BlobListed(Uploading) => store' = store
             /\ Wrote => BlobName(Uploading) \in store'.blobs]_vars

(* C5, amended: upload writes a blob if and only if the file exists, its   *)
(* checksum was computed, the listing answers without the blob             *)
(* <name>_<checksum> and the write is answered; a listed blob means no     *)
(* write; after a write the blob is present; an existing file whose        *)
(* checksum is None is not written and fails the upload                    *)
C5_WritesIffAbsentAndHashed ==
    [][UploadStep
          => /\ Wrote <=> /\ Uploading.exists
                          /\ Uploading.checksum # None
                          /\ ~BlobListed(Uploading)
                          /\ StorageAnswers
             /\ BlobListed(Uploading) => store' = store
             /\ Wrote => /\ BlobName(Uploading) \in store'.blobs
                         /\ store'.writes[BlobName(Uploading)] = Writes(BlobName(Uploading)) + 1
             /\ (Uploading.exists /\ Uploading.checksum = None)
                   => Uploading.name \in th'.upfailed]_vars

(* the loop has met a file that exists without a checksum, which failed    *)
(* and was not written, and has written the next file                      *)
C5_Witness ==
    /\ th.pc = "upload"
    /\ th.k > 2
    /\ th.uploading[1].exists
    /\ th.uploading[1].checksum = None
    /\ th.uploading[1].name \in th.upfailed
    /\ BlobName(th.uploading[1]) \notin store.blobs
    /\ BlobName(th.uploading[2]) \in store.blobs
    /\ Len(th.uploaded) = 1

(* C6 as stated: create_blob_from_path has written at most one blob for    *)
(* each checksum, and that blob once                                       *)
C6_OncePerChecksum ==
    \A b, c \in DOMAIN store.writes :
        b[2] = c[2] => (b = c /\ store.writes[b] <= 1)

(* C6, amended: create_blob_from_path has written each blob, named by file *)
(* name and checksum, at most once, and the blobs of the container are the *)
(* blobs written                                                           *)
C6_OncePerNameAndChecksum ==
    /\ \A b \in DOMAIN store.writes : store.writes[b] <= 1
    /\ store.blobs = DOMAIN store.writes

(* two submissions of the same scene have both gone through, and every     *)
(* file of the second was written once                                     *)
C6_Witness ==
    /\ th.pc = "done"
    /\ th.ret = "returned"
    /\ now > 2
    /\ Cardinality(DOMAIN svc.jobs) = 3
    /\ Len(th.uploaded) = Len(th.uploading)
    /\ \A k \in 1..Len(th.uploading) : Writes(BlobName(th.uploading[k])) = 1

(* C9: the collection holds no two entries with the same path, and every   *)
(* entry is an existing file that is not a directory                       *)
C9_NoDuplicatePaths ==
    \A i, j \in 1..Len(assets.collection) :
        /\ assets.collection[i].path = assets.collection[j].path => i = j
        /\ assets.collection[i].exists
        /\ ~IsDir(assets.collection[i].path)

----------------------------------------------------------------------------
(* Pools *)

(* C7: get_pool returns the pool the setting asks for: the given id and    *)
(* nothing created for reuse, one new persistent pool and a reference to   *)
(* it for create, a reference with a job-scoped auto-pool specification    *)
(* and nothing created for auto, ValueError for every other setting        *)
C7_PoolResolved ==
    [][(th.pc = "begin" /\ th'.pc # "begin") =>
          IF props.pool_type = {"reuse"} /\ props.pool_id # NoId THEN
             /\ th'.pc = "configure"
             /\ th'.pool = PoolInformation(props.pool_id, NoSpec)
             /\ svc'.pools = svc.pools
          ELSE IF props.pool_type = {"create"} THEN
             /\ th'.pc = "configure"
             /\ th'.pool.pool_id \notin svc.pools
             /\ svc'.pools = svc.pools \cup {th'.pool.pool_id}
             /\ th'.pool.auto_pool_specification = NoSpec
          ELSE IF props.pool_type = {"auto"} THEN
             /\ th'.pc = "configure"
             /\ th'.pool.pool_id = NoId
             /\ th'.pool.auto_pool_specification.pool_lifetime_option = "job"
             /\ th'.pool.auto_pool_specification.keep_alive = FALSE
             /\ svc'.pools = svc.pools
          ELSE
             /\ th'.pc = "catch"
             /\ th'.exc = "ValueError"
             /\ svc' = svc]_vars

(* C8: a job that runs on an auto-pool carries its own auto-pool           *)
(* specification instead of a pool id, and no other job runs on that pool  *)
C8_AutoPoolNotShared ==
    \A j \in DOMAIN svc.jobs :
        svc.jobs[j].runs_on.prefix \in {"blender_auto", "luxblend_auto"}
            => /\ svc.jobs[j].pool.pool_id = NoId
               /\ \A h \in DOMAIN svc.jobs :
                     svc.jobs[h].runs_on = svc.jobs[j].runs_on => h = j

----------------------------------------------------------------------------
(* Modal handlers *)

(* C10: a modal handler returns FINISHED, and so is removed, only when its *)
(* thread has completed                                                    *)
C10_FinishedOnlyWhenDone ==
    [][/\ (ui.modal /\ ~ui'.modal) => ~Alive
       /\ (ui.jobs_modal /\ ~ui'.jobs_modal) => ~JobsAlive]_vars

--------------------------------------------------------------------------
(* The session wrapper *)

(* C11: a function run through BatchOps.session that raises leaves the page
   ERROR and returns CANCELLED; one that returns normally has its result
   returned and the page it left kept: HOME or SUBMIT after the page
   operators, the page before after refresh and upload, SUBMITTED and no
   value after the submission thread *)
C11_SessionErrorSafe ==
    [][/\ Home =>
             IF ui'.exc # "none"
             THEN page' = "ERROR" /\ ui'.ret = "CANCELLED"
             ELSE page' = "HOME" /\ ui'.ret = "FINISHED"
       /\ SubmissionPage =>
             IF ui'.exc # "none"
             THEN page' = "ERROR" /\ ui'.ret = "CANCELLED"
             ELSE page' = "SUBMIT" /\ ui'.ret = "FINISHED"
       /\ AssetsPage =>
             IF ui'.exc # "none"
             THEN page' = "ERROR" /\ ui'.ret = "CANCELLED"
             ELSE page' = "ASSETS" /\ ui'.ret = "FINISHED"
       /\ (AssetsRefresh \/ AssetsUpload) =>
             IF ui'.exc # "none"
             THEN page' = "ERROR" /\ ui'.ret = "CANCELLED"
             ELSE page' = page /\ ui'.ret = "FINISHED"
       /\ EndsRun =>
             IF th.pc = "catch"
             THEN page' = "ERROR" /\ th'.ret = "CANCELLED"
             ELSE page' = "SUBMITTED" /\ th'.ret = "returned"]_vars

(* The assets page raised while the page was already set to ASSETS, and the
   submission thread raised as well *)
C11_Witness ==
    /\ ui.exc # "none" /\ ui.ret = "CANCELLED" /\ page = "ERROR"
    /\ th.pc = "done" /\ th.exc # "none" /\ th.ret = "CANCELLED"

--------------------------------------------------------------------------
(* The asset list edited by hand *)

(* C12: assets.add appends a file only when it exists on disk and no object
   of the collection has its path; when it appends nothing it returns
   FINISHED and raises nothing *)
C12_AddOnlyNewExisting ==
    [][AssetsAdd =>
          IF \/ Len(assets'.collection) > Len(assets.collection)
             \/ Len(assets'.assets) > Len(assets.assets)
          THEN LET a == assets'.collection[Len(assets'.collection)]
               IN /\ a.exists
                  /\ \A k \in 1..Len(assets.collection) :
                        assets.collection[k].path # a.path
          ELSE /\ assets'.collection = assets.collection
               /\ assets'.assets = assets.assets
               /\ ui'.ret = "FINISHED" /\ ui'.exc = "none"]_vars

(* What scanning the scene from empty lists yields *)
Scanned(sc, as) ==
    generate_collection(sc,
        [as EXCEPT !.collection = <<>>, !.assets = <<>>, !.index = 0, !.raised = "none"],
        0).collection

(* C13: after assets.refresh has returned FINISHED the collection is the one
   a scan of the current scene yields, whatever was added or removed by hand
   before, and a second refresh would leave the same collection *)
C13_RefreshFromScratch ==
    [][(AssetsRefresh /\ ui'.exc = "none") =>
          /\ assets'.collection = Scanned(scene, assets')
          /\ \A tmpname \in TempNames :
                RefreshOp(scene', assets', tmpname, 0).collection = assets'.collection]_vars

(* assets.refresh has just returned FINISHED after the list was edited by
   hand *)
C13_Witness ==
    /\ ui.op = "assets.refresh" /\ ui.ret = "FINISHED"
    /\ assets.edits > 0
    /\ assets.collection # <<>>
    /\ assets.collection = Scanned(scene, assets)

--------------------------------------------------------------------------
(* The job watcher *)

(* C14: once _check_job_stopped has run on the fetched job, its result is
   True exactly for the state completed, False exactly for active and
   enabling, RuntimeError for disabling, disabled, terminating and deleting,
   and one of the three for every state *)
C14_CheckJobStopped ==
    watcher.stopped # "none" /\ watcher.pc \in {"sleep", "exit"} =>
        /\ watcher.stopped = "True" <=> watcher.job = "completed"
        /\ watcher.stopped = "False" <=> watcher.job \in {"active", "enabling"}
        /\ watcher.job \in {"disabling", "disabled", "terminating", "deleting"}
              => watcher.stopped = "RuntimeError"
        /\ watcher.stopped \in {"True", "False", "RuntimeError"}
        /\ watcher.pc = "exit" <=> watcher.stopped # "False"

(* the watcher left its loop on a job that was being deleted, after a poll
   that found it running *)
C14_Witness ==
    /\ watcher.pc = "exit"
    /\ watcher.job = "deleting"
    /\ watcher.stopped = "RuntimeError"
    /\ watcher.downloaded > 0

--------------------------------------------------------------------------
(* Assets across scenes *)

(* The files of the scene that was open before this one: those a scan of
   it collects, and its .blend file *)
PreviousPaths(sc) ==
    UNION {{collect_assets(p)[k] : k \in 1..Len(collect_assets(p))} \cup {p.filepath} : p \in {q \in {SceneA, SceneB, SceneU, SceneL} : sc \in NextScenes(q)}}

(* C15: when submit_job gathers its files after another blend file was
   loaded, none of them is a file collected from the scene that was open
   before, on whichever page the file was loaded *)
C15_NoAssetOfPreviousScene ==
    [][(th.pc = "configure" /\ th'.pc = "upload") =>
          \A k \in 1..Len(th'.uploading) :
             th'.uploading[k].path \notin PreviousPaths(scene)]_vars

(* a job submitted from the unsaved scene, loaded after SceneB, with the
   texture of that scene as a resource file *)
C15_Witness ==
    /\ scene = SceneU
    /\ th.pc = "done" /\ th.exc = "none"
    /\ \E k \in 1..Len(th.uploaded) : th.uploaded[k].file_path = "tex.png"
    /\ \A k \in 1..Len(th.uploaded) :
          th.uploaded[k].file_path \notin {"snd.wav", "copy.png", "b.blend"}

--------------------------------------------------------------------------
(* Authentication *)

(* C16: web_authentication tries the unattended session, then the cached
   one, then the browser, each only after the one before failed; when it
   ends, the page is HOME only if it holds credentials, LOGIN when no
   request reached the redirect server, ERROR when the request carries an
   error *)
C16_WebAuthentication ==
    [][(AuthAlive /\ ~AuthAlive') =>
          /\ auth'.tried \in {<<"unattended">>, <<"unattended", "cached">>,
                               <<"unattended", "cached", "browser">>}
          /\ auth'.credentials = "unattended" <=> auth'.tried = <<"unattended">>
          /\ auth'.credentials = "cached" <=> auth'.tried = <<"unattended", "cached">>
          /\ page' = "HOME" => auth'.credentials # "none"
          /\ auth.pc = "decide" /\ auth.code = NoCode => page' = "LOGIN"
          /\ auth.pc = "decide" /\ Find(auth.code, "/?error=", 0) >= 0
                => page' = "ERROR"]_vars

--------------------------------------------------------------------------
(* The PROCESSING page *)

(* C17: once the SubmitThread has terminated and submission.start has
   returned, the page is not PROCESSING, however the test and the set of
   _start interleave with the thread *)
C17_ProcessingOnlyWhileRunning ==
    (th.pc = "done" /\ ui.start = "none") => page # "PROCESSING"

--------------------------------------------------------------------------
(* upload_assets *)

(* C18: upload_assets ends only after it has tried every asset; it raises
   ValueError exactly when an asset failed, and while none has failed the
   list it builds holds one ResourceFile per asset tried, in the order of
   the input, with the file name of the asset as file_path *)
C18_UploadAssets ==
    [][/\ (th.pc = "upload" /\ th'.pc # "upload") =>
             /\ th.k = Len(th.uploading) + 1
             /\ th'.exc = "ValueError" <=> th.upfailed # {}
       /\ (th'.pc = "upload" /\ th'.upfailed = {}) =>
             /\ Len(th'.uploaded) = th'.k - 1
             /\ \A j \in 1..Len(th'.uploaded) :
                   th'.uploaded[j].file_path = th'.uploading[j].name]_vars

(* the first asset failed, the assets after it were uploaded all the same,
   and upload_assets raised ValueError *)
C18_Witness ==
    /\ th.exc = "ValueError"
    /\ Len(th.uploading) >= 3
    /\ th.uploading[1].name \in th.upfailed
    /\ Len(th.uploaded) >= 2

--------------------------------------------------------------------------
(* The resource files of the frame tasks *)

(* resource_files=job_assets: the entries with one file name in the list
   upload_assets returned, which every frame task gets *)
Occurrences(rfs, name) == Cardinality({k \in 1..Len(rfs) : rfs[k].file_path = name})

(* C19: once the frame tasks of a job are built, their resource files hold
   the .blend job file of the command line exactly once and render.py
   exactly once *)
C19_JobFileAndScriptOnce ==
    (th.tasks # <<>> /\ th.pc \in {"job_add", "add_coll", "finish", "done"}) =>
        /\ Occurrences(th.uploaded, th.job_file.name) = 1
        /\ Occurrences(th.uploaded, "render.py") = 1

--------------------------------------------------------------------------
(* The two asset lists *)

(* C20: the collection and the display list have the same length and entry
   i of both names the same file, after every add_asset, remove_selected,
   reset and set_uploaded, whether the call raised or not *)
C20_ListsAligned ==
    /\ Len(assets.assets) = Len(assets.collection)
    /\ \A i \in 1..Len(assets.collection) :
          /\ assets.assets[i].fullpath = assets.collection[i].path
          /\ assets.assets[i].name = assets.collection[i].name

(* a file that does not exist was added (add_asset raised), an entry was
   removed, and a submitted job marked every entry as uploaded *)
C20_Witness ==
    /\ assets.edits = 2
    /\ Len(assets.collection) >= 3
    /\ \E i \in 1..Len(assets.collection) : ~assets.collection[i].exists
    /\ \A i \in 1..Len(assets.assets) : assets.assets[i].upload_check

----------------------------------------------------------------------------
(* The paging of the job history *)

(* C21: after history.first, history.last, history.more or history.less,
   each run from an enabled button, the paging index is a non-negative
   multiple of per_call and is less than total_count (0 when total_count is
   0), and after history.last it is the start of the last page of
   total_count, also when jobs were submitted between two calls *)
C21_PagingIndex ==
    history.op \in {"first", "last", "more", "less"} =>
        /\ history.index >= 0
        /\ history.index % PerCall = 0
        /\ IF history.total_count = 0
           THEN history.index = 0
           ELSE history.index < history.total_count
        /\ (history.op = "last" /\ history.total_count # 0) =>
              history.index = ((history.total_count - 1) \div PerCall) * PerCall

----------------------------------------------------------------------------
(* The frame range of a submission *)

(* C22: when framecheck runs on the SUBMIT page, afterwards start_f <= end_f
   (end_f raised to start_f when it was smaller, start_f kept) and
   valid_range is true exactly when frame_start <= start_f and
   end_f <= frame_end; on any other page it changes no property *)
C22_FrameCheck ==
    [][FrameCheck =>
          IF page = "SUBMIT"
          THEN /\ display'.start_f = display.start_f
               /\ display'.end_f = IF display.end_f < display.start_f
                                  THEN display.start_f ELSE display.end_f
               /\ display'.start_f <= display'.end_f
               /\ display'.valid_range <=>
                     /\ display'.frame_start <= display'.start_f
                     /\ display'.end_f <= display'.frame_end
               /\ display'.frame_start = display.frame_start
               /\ display'.frame_end = display.frame_end
          ELSE display' = display]_vars

(* framecheck has raised end_f to a start_f beyond the scene's last frame  *)
(* and has cleared valid_range                                             *)
C22_Witness ==
    /\ page = "SUBMIT"
    /\ ~display.valid_range
    /\ display.start_f = display.end_f
    /\ display.end_f > display.frame_end

----------------------------------------------------------------------------
(* The pool a submission creates *)

(* C23: once a submission has run get_pool with pool_type 'create', the
   settings are 'reuse' with the id of the pool that was just created; the
   submissions that follow with these settings create no further pool, and
   every job submitted since references that one pool *)
C23_CreatedPoolReused ==
    (props.pool_type = {"reuse"} /\ props.pool_id \notin {NoId, OldPool, OldAutoPool}) =>
        /\ svc.pools \ {OldPool, OldAutoPool} = {props.pool_id}
        /\ \A j \in DOMAIN svc.jobs :
              j.t # 0 => svc.jobs[j].pool.pool_id = props.pool_id

====
